---- MODULE Spec2Model ----
(***************************************************************************)
(* Verification model of MolHGCN:                                          *)
(*   - main() of cleanedup_regression_node.py: graph-file selection, model *)
(*     and scheduler set-up, and the epoch/batch training loop with its    *)
(*     periodic evaluation, logging and checkpointing;                     *)
(*   - Net of molhgcn/hypergraphnetwork/Networks.py: the sub-network       *)
(*     dimensions declared by __init__ and the forward pass.               *)
(***************************************************************************)
EXTENDS Integers, Sequences, FiniteSets, TLC

VARIABLES
    \* ---- inputs of main() and the files / graphs it finds
    ds, init_feat, fg_cyc,  \* arguments of main()
    absent,                 \* data files that do not exist on disk
    gs_dims,                \* feature dimensions of the train/val/test graphs
    iters,                  \* len(train_dl): batches per epoch
    \* ---- control state of main()
    pc,                     \* position in main()
    error,                  \* the exception that ended the run, or "none"
    loaded,                 \* the three files read by load_graphs
    epoch, i, n_update,     \* loop counters of main()
    \* ---- model / optimizer / scheduler
    params,                 \* version of the model parameters
    opt_steps,              \* optimizer state: number of opt.step() calls
    mode,                   \* "train" or "eval" (model.train() / model.eval())
    sched,                  \* CosineAnnealingWarmRestarts: last_epoch, T_cur, T_i
    step_arg,               \* argument of the last scheduler.step(...) call
    lr,                     \* opt.param_groups[0]['lr'], in units of 1e-9
    \* ---- collaborators
    log_dict,               \* metric names of the batch under construction
    wandb_log,              \* what wandb.log has received: count, last keys, last lr
    model_pt,               \* parameter version stored in model.pt (-1: no file)
    n_train, n_eval, n_ckpt,\* number of TRAIN_STEP / EVAL_STEP / CHECKPOINT done
    finished,               \* run.finish() has been called
    prefetched,             \* batches of this epoch produced by the workers, not yet consumed
    \* ---- Net (Networks.py)
    hp,                     \* arguments of Net.__init__
    net,                    \* the sub-networks Net.__init__ declared
    g,                      \* a heterogeneous graph (atoms, bonds, functional groups)
    perm,                   \* a reordering of the nodes of one node type
    out_g, out_pg,          \* Net.forward on g and on the reordered g
    npc                     \* position of the Net scenario

mainVars == <<ds, init_feat, fg_cyc, absent, gs_dims, iters, pc, error, loaded,
              epoch, i, n_update, params, opt_steps, mode, sched, step_arg, lr,
              log_dict, wandb_log, model_pt, n_train, n_eval, n_ckpt, finished,
              prefetched>>

netVars == <<hp, net, g, perm, out_g, out_pg, npc>>

vars == <<mainVars, netVars>>

----------------------------------------------------------------------------
(* Bounds of the model *)

MaxIters == 2          \* largest len(train_dl) explored
MaxPrefetch == 2       \* capacity of the loader's prefetch queue

(* Constants of get_config / main *)

epochs == 2400
T_0 == 50
log_every == 50
node_in_dim == 100
edge_in_dim == 7
fg_in_dim == 100

Datasets == {"freesolv", "esol"}
Splits == <<"train", "val", "test">>

----------------------------------------------------------------------------
(* Graph-file selection, lines 67-84 *)

\* '...{}...'.format(ds): the text before the dataset name, and after it
Format(before, name, after) == before \o name \o after

\* FileTriple with the validation file of the last branch taken from the
\* branch above it
FileTripleSlip(name, cyc, init) ==
    IF cyc
    THEN IF init
         THEN << Format("data/", name, "_train.bin"),
                 Format("data/", name, "_val.bin"),
                 Format("data/", name, "_test.bin") >>
         ELSE << Format("data/noinit_", name, "_train.bin"),
                 Format("data/noinit_", name, "_val.bin"),
                 Format("data/noinit_", name, "_test.bin") >>
    ELSE IF init
         THEN << Format("data_nocyc/nocyc_", name, "_train.bin"),
                 Format("data_nocyc/nocyc_", name, "_val.bin"),
                 Format("data_nocyc/nocyc_", name, "_test.bin") >>
         ELSE << Format("data_nocyc/nocyc_noinit_", name, "_train.bin"),
                 Format("data_nocyc/nocyc_", name, "_val.bin"),
                 Format("data_nocyc/nocyc_noinit_", name, "_test.bin") >>

\* the train / val / test files main() passes to load_graphs, in that order
FileTriple(name, cyc, init) ==
    IF cyc
    THEN IF init
         THEN << Format("data/", name, "_train.bin"),
                 Format("data/", name, "_val.bin"),
                 Format("data/", name, "_test.bin") >>
         ELSE << Format("data/noinit_", name, "_train.bin"),
                 Format("data/noinit_", name, "_val.bin"),
                 Format("data/noinit_", name, "_test.bin") >>
    ELSE IF init
         THEN << Format("data_nocyc/nocyc_", name, "_train.bin"),
                 Format("data_nocyc/nocyc_", name, "_val.bin"),
                 Format("data_nocyc/nocyc_", name, "_test.bin") >>
         ELSE << Format("data_nocyc/nocyc_noinit_", name, "_train.bin"),
                 Format("data_nocyc/nocyc_noinit_", name, "_val.bin"),
                 Format("data_nocyc/nocyc_noinit_", name, "_test.bin") >>

\* every file main() can ask for, for one dataset
AllPaths(name) ==
    { FileTriple(name, c, f)[k] : c \in BOOLEAN, f \in BOOLEAN, k \in 1..3 }

----------------------------------------------------------------------------
(* Feature dimensions: the encoders of Net are nn.Linear(node_in_dim, .),   *)
(* nn.Linear(edge_in_dim, .), nn.Linear(fg_in_dim, .); applying them to     *)
(* features of another width raises.                                        *)

GoodDims == [af |-> node_in_dim, bf |-> edge_in_dim, ff |-> fg_in_dim]

DimChoices == { GoodDims,
                [af |-> node_in_dim - 26, bf |-> edge_in_dim, ff |-> fg_in_dim],
                [af |-> node_in_dim, bf |-> edge_in_dim, ff |-> 1] }

ForwardRaises(d) ==
    d.af # node_in_dim \/ d.bf # edge_in_dim \/ d.ff # fg_in_dim

----------------------------------------------------------------------------
(* Fixed-point arithmetic for the cosine schedule (6 decimal digits) *)

FP == 1000 * 1000

\* floor(a * b / FP) for a, b >= 0, without leaving 32-bit integers
MulFP(a, b) ==
    CHOOSE r \in { (av \div 1000) * (bv \div 1000)
                     + (((av \div 1000) * (bv % 1000) + (av % 1000) * (bv \div 1000)
                         + (((av % 1000) * (bv % 1000)) \div 1000)) \div 1000) :
                   av \in {a}, bv \in {b} } : TRUE

\* cos(x) for x in [0, pi/2], x and the result scaled by FP (Taylor, Horner form)
CosHalf(x) ==
    LET x2 == MulFP(x, x)
        h5 == FP - (x2 \div 132)
        h4 == FP - (MulFP(x2, h5) \div 90)
        h3 == FP - (MulFP(x2, h4) \div 56)
        h2 == FP - (MulFP(x2, h3) \div 30)
        h1 == FP - (MulFP(x2, h2) \div 12)
    IN  FP - (MulFP(x2, h1) \div 2)

\* cos(pi * num / den) scaled by FP, for 0 <= num <= den
CosPi(num, den) ==
    IF 2 * num <= den
    THEN CosHalf((3141593 * num) \div den)
    ELSE 0 - CosHalf((3141593 * (den - num)) \div den)

----------------------------------------------------------------------------
(* Optimizer and scheduler, lines 101-102 and 130 *)

\* lr=config.train.lr = 1e-3, in units of 1e-9
BaseLr == 1000 * 1000

\* scheduler.step(epoch): stepped with the epoch number alone
SchedArgEpoch(e, b, n) == [num |-> e * n, den |-> n]

\* scheduler.step(epoch + (i + 1) / iters): the batch counted before it is done
SchedArgNext(e, b, n) == [num |-> e * n + b + 1, den |-> n]

\* epoch + i / iters, as the exact fraction num/den
SchedArg(e, b, n) == [num |-> e * n + b, den |-> n]

\* CosineAnnealingWarmRestarts.step(arg) with T_mult = 1, eta_min = 0:
\*   T_cur = arg % T_0 if arg >= T_0 else arg;  last_epoch = floor(arg)
SchedStep(arg) ==
    [ last_epoch |-> arg.num \div arg.den,
      T_cur      |-> [num |-> IF arg.num >= T_0 * arg.den
                              THEN arg.num % (T_0 * arg.den)
                              ELSE arg.num,
                      den |-> arg.den],
      T_i        |-> T_0 ]

\* eta_min + (base_lr - eta_min) * (1 + cos(pi * T_cur / T_i)) / 2
SchedLr(s) ==
    MulFP(BaseLr, (FP + CosPi(s.T_cur.num, s.T_cur.den * s.T_i)) \div 2)

\* the scheduler as constructed on line 102: its initial step puts it at 0
SchedInit == [last_epoch |-> 0, T_cur |-> [num |-> 0, den |-> 1], T_i |-> T_0]

NoArg == [num |-> 0 - 1, den |-> 1]

----------------------------------------------------------------------------
(* Net.__init__, Networks.py lines 9-43 *)

MaxHidden == 2         \* largest hidden dimension explored
MaxAtoms == 3          \* largest number of atoms in a graph

\* MLP(input_dim, output_dim, num_neurons=..., hidden_act=...) as declared
MLPDecl(id, in, out, neurons, act) ==
    [id |-> id, in |-> in, out |-> out, num_neurons |-> neurons, act |-> act]

\* the hidden layers and activation MLP takes when a call names neither
\* num_neurons nor hidden_act (line 29 names neither): fixed by MLP itself,
\* whatever the arguments of Net
MLPDefaultNeurons == <<3>>
MLPDefaultAct == "ReLU"

\* the functional-group attention function declared on lines 41-42
FamDecl(h) ==
    MLPDecl(6, 2 * (h.node_hidden_dim + h.fg_hidden_dim), h.fg_hidden_dim,
            h.num_neurons, "Identity")

\* the sub-networks declared by Net.__init__ for the arguments h
NetInit(h) ==
    [ node_encoder |-> [id |-> 11, in |-> h.node_in_dim, out |-> h.node_hidden_dim],
      edge_encoder |-> [id |-> 12, in |-> h.edge_in_dim, out |-> h.edge_hidden_dim],
      fg_encoder   |-> [id |-> 13, in |-> h.fg_in_dim, out |-> h.fg_hidden_dim],
      node_readout |-> [id |-> 14, in |-> h.node_hidden_dim],
      fg_readout   |-> [id |-> 15, in |-> h.fg_hidden_dim],
      reg |-> MLPDecl(7, 2 * (h.node_hidden_dim + h.fg_hidden_dim), h.out_dim,
                      MLPDefaultNeurons, MLPDefaultAct),
      nm  |-> MLPDecl(1, h.node_hidden_dim + h.edge_hidden_dim, h.node_hidden_dim,
                      h.num_neurons, h.activation),
      em  |-> MLPDecl(2, h.node_hidden_dim * 2 + h.edge_hidden_dim, h.edge_hidden_dim,
                      h.num_neurons, h.activation),
      am  |-> MLPDecl(3, h.node_hidden_dim * 2 + h.edge_hidden_dim, 1,
                      h.num_neurons, "Identity"),
      fem |-> MLPDecl(4, 2 * (h.node_hidden_dim + h.fg_hidden_dim), h.fg_hidden_dim,
                      h.num_neurons, h.activation),
      fnm |-> MLPDecl(5, h.fg_hidden_dim * 2 + h.node_hidden_dim, h.fg_hidden_dim,
                      h.num_neurons, h.activation),
      fam |-> FamDecl(h) ]

\* the arguments explored: small input widths, one hidden layer of two neurons
HyperParams ==
    { [ out_dim |-> 1, node_in_dim |-> 2, edge_in_dim |-> 1, fg_in_dim |-> 1,
        num_neurons |-> <<2>>, activation |-> "LeakyReLU",
        node_hidden_dim |-> nh, edge_hidden_dim |-> eh, fg_hidden_dim |-> fh ] :
        nh \in 1..MaxHidden, eh \in 1..MaxHidden, fh \in 1..MaxHidden }

NoHP ==
    [ out_dim |-> 0, node_in_dim |-> 0, edge_in_dim |-> 0, fg_in_dim |-> 0,
      num_neurons |-> << >>, activation |-> "LeakyReLU",
      node_hidden_dim |-> 0, edge_hidden_dim |-> 0, fg_hidden_dim |-> 0 ]

----------------------------------------------------------------------------
(* Tensors: a feature vector is a sequence of integers; the learned weights *)
(* are fixed small integers and every layer output is kept in -15..15      *)

Wrap(v) == ((v + 15) % 31) - 15

Wt(id, r, c) == (((37 * id + 101 * r + 53 * c) * (id + r + c + 7)) % 7) - 3
Bias(id, r) == (((11 * id + 29 * r) * (id + r + 3)) % 5) - 2

RECURSIVE Dot(_, _, _, _)
Dot(id, r, x, c) ==
    IF c = 0 THEN 0 ELSE Wt(id, r, c) * x[c] + Dot(id, r, x, c - 1)

\* nn.Linear(in, out) applied to x
Linear(id, in, out, x) ==
    [r \in 1..out |-> Wrap(Bias(id, r) + Dot(id, r, x, in))]

Act(name, v) ==
    CASE name = "Identity"  -> v
      [] name = "LeakyReLU" -> IF v >= 0 THEN v ELSE 0 - ((0 - v) \div 4)
      [] OTHER              -> IF v >= 0 THEN v ELSE 0

RECURSIVE MLPLayers(_, _, _, _)
MLPLayers(m, x, width, k) ==
    IF k > Len(m.num_neurons)
    THEN Linear(10 * m.id + k, width, m.out, x)
    ELSE LET hid == Linear(10 * m.id + k, width, m.num_neurons[k], x)
         IN  MLPLayers(m, [r \in 1..Len(hid) |-> Act(m.act, hid[r])],
                       m.num_neurons[k], k + 1)

\* the feed-forward block: hidden layers with activation, linear output
MLP(m, x) == MLPLayers(m, x, m.in, 1)

\* a tensor, computed once: the rows f[1], ..., f[n] as a list
Tensor(f) == f \o << >>

Zeros(n) == [k \in 1..n |-> 0]
VAdd(a, b) == [k \in 1..Len(a) |-> a[k] + b[k]]
VMax(a, b) == [k \in 1..Len(a) |-> IF a[k] >= b[k] THEN a[k] ELSE b[k]]
VScale(c, a) == [k \in 1..Len(a) |-> c * a[k]]
VMul(a, b) == [k \in 1..Len(a) |-> a[k] * b[k]]

\* sum of the vectors f[k], k in S (order of enumeration: CHOOSE)
RECURSIVE VSum(_, _, _)
VSum(f, S, n) ==
    IF S = {} THEN Zeros(n)
    ELSE LET k == CHOOSE k \in S : TRUE
         IN  VAdd(f[k], VSum(f, S \ {k}, n))

\* element-wise maximum of the vectors f[k], k in S (S not empty)
RECURSIVE VMaxOver(_, _)
VMaxOver(f, S) ==
    LET k == CHOOSE k \in S : TRUE
    IN  IF S = {k} THEN f[k] ELSE VMax(f[k], VMaxOver(f, S \ {k}))

----------------------------------------------------------------------------
(* Graphs: atoms 1..nA with features af, functional groups 1..nF with      *)
(* features ff, bonds (atom -> atom, with features) and memberships         *)
(* (atom -> func_group), each an ordered list of edges                      *)

BondPatterns == {"chain", "ring", "star"}

BondPairs(nA, pat) ==
    CASE pat = "chain" -> { <<a, a + 1>> : a \in 1..(nA - 1) }
      [] pat = "ring"  -> { <<a, a + 1>> : a \in 1..(nA - 1) } \cup { <<nA, 1>> }
      [] OTHER         -> { <<1, a>> : a \in 2..nA }

\* a set of pairs as a list, in lexicographic order
RECURSIVE ListOf(_)
ListOf(S) ==
    IF S = {} THEN << >>
    ELSE LET m == CHOOSE m \in S : \A o \in S :
                      m[1] < o[1] \/ (m[1] = o[1] /\ m[2] <= o[2])
         IN  <<m>> \o ListOf(S \ {m})

\* a molecule: every bond is stored in both directions
Graph(h, nA, nF, pat, seed) ==
    LET und == BondPairs(nA, pat)
        dir == ListOf(und \cup { <<pr[2], pr[1]>> : pr \in und })
        mem == ListOf({ <<a, 1>> : a \in 1..2 } \cup
                      (IF nF = 2 THEN { <<a, 2>> : a \in 2..nA } ELSE {}))
    IN  [ nA |-> nA, nF |-> nF,
          af |-> [a \in 1..nA |-> [k \in 1..h.node_in_dim |-> (seed + 3 * a * a + a * k + 7 * k) % 4]],
          ff |-> [f \in 1..nF |-> [k \in 1..h.fg_in_dim |-> (seed + 2 * f + k) % 3]],
          bonds |-> [e \in 1..Len(dir) |->
                        [src |-> dir[e][1], dst |-> dir[e][2],
                         feat |-> [k \in 1..h.edge_in_dim |->
                                      (seed + dir[e][1] * dir[e][2] + dir[e][1] + k) % 3]]],
          members |-> [e \in 1..Len(mem) |-> [atom |-> mem[e][1], fg |-> mem[e][2]]] ]

NoGraph ==
    [nA |-> 0, nF |-> 0, af |-> << >>, ff |-> << >>, bonds |-> << >>, members |-> << >>]

NodeOrders(n) ==
    { p \in [1..n -> 1..n] : \A a, b \in 1..n : p[a] = p[b] => a = b }

Inverse(p, b) == CHOOSE a \in DOMAIN p : p[a] = b

\* gr with node a of type ntype moved to position p[a], incident edges remapped
PermuteGraph(gr, ntype, p) ==
    IF ntype = "atom"
    THEN [gr EXCEPT
            !.af = [b \in 1..gr.nA |-> gr.af[Inverse(p, b)]],
            !.bonds = [e \in DOMAIN gr.bonds |->
                          [gr.bonds[e] EXCEPT !.src = p[@], !.dst = p[@]]],
            !.members = [e \in DOMAIN gr.members |->
                          [gr.members[e] EXCEPT !.atom = p[@]]]]
    ELSE [gr EXCEPT
            !.ff = [b \in 1..gr.nF |-> gr.ff[Inverse(p, b)]],
            !.members = [e \in DOMAIN gr.members |->
                          [gr.members[e] EXCEPT !.fg = p[@]]]]

----------------------------------------------------------------------------
(* HyperMPNN: one layer of relational message passing *)

HyperMPNN(nt, gr, unf, uef, uff) ==
    LET E == DOMAIN gr.bonds
        M == DOMAIN gr.members
        \* 1. edge update and 2. scalar gate, from (source, destination, edge)
        ein == Tensor([e \in E |-> unf[gr.bonds[e].src] \o unf[gr.bonds[e].dst] \o uef[e]])
        nef == Tensor([e \in E |-> MLP(nt.em, ein[e])])
        gate == Tensor([e \in E |-> MLP(nt.am, ein[e])[1]])
        \* 3. atom update: gated sum of (neighbour, edge) over incoming bonds
        msg == Tensor([e \in E |-> VScale(gate[e], unf[gr.bonds[e].src] \o nef[e])])
        nnf == Tensor([a \in 1..gr.nA |->
                  MLP(nt.nm, VSum(msg, {e \in E : gr.bonds[e].dst = a}, nt.nm.in))])
        \* 4. membership-edge update and 6. its gate, from atom, group and
        \*    the pooled atom and group context
        actx == VSum(nnf, 1..gr.nA, nt.node_encoder.out)
        fctx == VSum(uff, 1..gr.nF, nt.fg_encoder.out)
        min == Tensor([m \in M |-> nnf[gr.members[m].atom] \o uff[gr.members[m].fg]
                            \o actx \o fctx])
        mef == Tensor([m \in M |-> MLP(nt.fem, min[m])])
        fgate == Tensor([m \in M |-> MLP(nt.fam, min[m])])
        \* 5. group update: sum over member atoms, combined with the group
        fmsg == Tensor([m \in M |-> nnf[gr.members[m].atom] \o VMul(fgate[m], mef[m])])
        nff == Tensor([f \in 1..gr.nF |->
                  MLP(nt.fnm, uff[f] \o VSum(fmsg, {m \in M : gr.members[m].fg = f},
                                             nt.node_encoder.out + nt.fg_encoder.out))])
    IN  [unf |-> nnf, uef |-> nef, uff |-> nff]

\* sigmoid, in quarters
Sigmoid4(v) ==
    IF v < 0 - 5 THEN 0 ELSE IF v < 0 - 1 THEN 1 ELSE IF v < 2 THEN 2
    ELSE IF v < 6 THEN 3 ELSE 4

\* WeightedSumAndMax over the nodes 1..n of one graph: learned per-node
\* weight times embedding, summed; element-wise maximum; concatenated
WeightedSumAndMax(r, feats, n) ==
    LET w == Tensor([a \in 1..n |-> Sigmoid4(Linear(r.id, r.in, 1, feats[a])[1])])
        weighted == Tensor([a \in 1..n |-> VScale(w[a], feats[a])])
    IN  VSum(weighted, 1..n, r.in) \o VMaxOver(feats, 1..n)

----------------------------------------------------------------------------
(* Net.forward, Networks.py lines 45-60 *)

\* the atom part taken from the first atom's row instead of the pooled readout
ReadoutFirstAtom(nt, gr, unf, uff) ==
    unf[1] \o unf[1] \o WeightedSumAndMax(nt.fg_readout, uff, gr.nF)

\* lines 56-58: the two readouts, concatenated
Readout(nt, gr, unf, uff) ==
    WeightedSumAndMax(nt.node_readout, unf, gr.nA)
        \o WeightedSumAndMax(nt.fg_readout, uff, gr.nF)

Forward(nt, gr) ==
    LET unf == Tensor([a \in 1..gr.nA |->
                   Linear(nt.node_encoder.id, nt.node_encoder.in,
                          nt.node_encoder.out, gr.af[a])])
        uef == Tensor([e \in DOMAIN gr.bonds |->
                   Linear(nt.edge_encoder.id, nt.edge_encoder.in,
                          nt.edge_encoder.out, gr.bonds[e].feat)])
        uff == Tensor([f \in 1..gr.nF |->
                   Linear(nt.fg_encoder.id, nt.fg_encoder.in,
                          nt.fg_encoder.out, gr.ff[f])])
        h == HyperMPNN(nt, gr, unf, uef, uff)
        readout == Readout(nt, gr, h.unf, h.uff)
    IN  [readout |-> readout, y |-> MLP(nt.reg, readout)]

NoOut == [readout |-> << >>, y |-> << >>]

----------------------------------------------------------------------------
(* The Net scenario: construct, run forward on g, run forward on g reordered *)

NetIdle ==
    /\ hp = NoHP
    /\ net = NetInit(NoHP)
    /\ g = NoGraph
    /\ perm = [ntype |-> "atom", p |-> << >>]
    /\ out_g = NoOut /\ out_pg = NoOut
    /\ npc = "idle"

Construct ==
    /\ npc = "new"
    /\ net' = NetInit(hp)
    /\ npc' = "built"
    /\ UNCHANGED <<hp, g, perm, out_g, out_pg>>
    /\ UNCHANGED mainVars

ForwardOnGraph ==
    /\ npc = "built"
    /\ out_g' = Forward(net, g)
    /\ npc' = "ran"
    /\ UNCHANGED <<hp, net, g, perm, out_pg>>
    /\ UNCHANGED mainVars

ForwardOnPermuted ==
    /\ npc = "ran"
    /\ out_pg' = Forward(net, PermuteGraph(g, perm.ntype, perm.p))
    /\ npc' = "compared"
    /\ UNCHANGED <<hp, net, g, perm, out_g>>
    /\ UNCHANGED mainVars

NextNet ==
    \/ Construct
    \/ ForwardOnGraph
    \/ ForwardOnPermuted

----------------------------------------------------------------------------
(* Initial states *)

RunInit ==
    /\ pc = "load"
    /\ error = "none"
    /\ loaded = << >>
    /\ epoch = 0 /\ i = 0 /\ n_update = 0
    /\ params = 0 /\ opt_steps = 0
    /\ mode = "train"
    /\ sched = SchedInit
    /\ step_arg = NoArg
    /\ lr = BaseLr
    /\ log_dict = {}
    /\ wandb_log = [count |-> 0, keys |-> {}, lr |-> 0]
    /\ model_pt = 0 - 1
    /\ n_train = 0 /\ n_eval = 0 /\ n_ckpt = 0
    /\ finished = FALSE
    /\ prefetched = 0

\* a well-configured run with the command line's defaults; the training
\* loader may be empty (len(train_dl) = 0)
Init ==
    /\ ds = "freesolv" /\ init_feat = FALSE /\ fg_cyc = FALSE
    /\ absent = {}
    /\ gs_dims = [s \in {"train", "val", "test"} |-> GoodDims]
    /\ iters \in 0..MaxIters
    /\ RunInit
    /\ NetIdle

\* any dataset and flags, at most one data file absent, any graph widths;
\* an empty loader or one batch per epoch
InitCfg ==
    /\ ds \in Datasets /\ init_feat \in BOOLEAN /\ fg_cyc \in BOOLEAN
    /\ absent \in {{}} \cup { {f} : f \in AllPaths(ds) }
    /\ gs_dims \in [{"train", "val", "test"} -> DimChoices]
    /\ iters \in 0..1
    /\ RunInit
    /\ NetIdle

\* Net on its own: any hidden widths, any small molecule, any proper reordering
InitNet ==
    /\ ds = "freesolv" /\ init_feat = FALSE /\ fg_cyc = FALSE
    /\ absent = {}
    /\ gs_dims = [s \in {"train", "val", "test"} |-> GoodDims]
    /\ iters = 1
    /\ RunInit
    /\ hp \in HyperParams
    /\ net = NetInit(NoHP)
    /\ \E nA \in 2..MaxAtoms, nF \in 1..2, pat \in BondPatterns :
          /\ g = Graph(hp, nA, nF, pat, nA + nF)
          /\ perm \in { [ntype |-> "atom", p |-> q] :
                            q \in NodeOrders(nA) \ {[a \in 1..nA |-> a]} }
                   \cup { [ntype |-> "func_group", p |-> q] :
                            q \in NodeOrders(nF) \ {[f \in 1..nF |-> f]} }
    /\ out_g = NoOut /\ out_pg = NoOut
    /\ npc = "new"

----------------------------------------------------------------------------
(* main() *)

\* lines 67-84: load_graphs on the train, val and test file of the variant
LoadGraphs ==
    /\ pc = "load"
    /\ LET files == FileTriple(ds, fg_cyc, init_feat) IN
       IF \E k \in 1..3 : files[k] \in absent
       THEN /\ pc' = "raised"
            /\ error' = "FileNotFound"
            /\ UNCHANGED loaded
       ELSE /\ pc' = "setup"
            /\ loaded' = files
            /\ UNCHANGED error
    /\ UNCHANGED netVars
    /\ UNCHANGED <<ds, init_feat, fg_cyc, absent, gs_dims, iters, epoch, i,
                   n_update, params, opt_steps, mode, sched, step_arg, lr,
                   log_dict, wandb_log, model_pt, n_train, n_eval, n_ckpt,
                   finished, prefetched>>

\* lines 86-115: loader, model, optimizer, scheduler, wandb run, counters
Setup ==
    /\ pc = "setup"
    /\ params' = 0
    /\ opt_steps' = 0
    /\ mode' = "train"
    /\ sched' = SchedInit
    /\ lr' = SchedLr(SchedInit)
    /\ n_update' = 0
    /\ epoch' = 0 /\ i' = 0
    /\ pc' = IF epochs > 0 /\ iters > 0 THEN "batch" ELSE "finish"
    /\ UNCHANGED netVars
    /\ UNCHANGED <<ds, init_feat, fg_cyc, absent, gs_dims, iters, error,
                   loaded, step_arg, log_dict, wandb_log, model_pt, n_train,
                   n_eval, n_ckpt, finished, prefetched>>

\* a loader worker puts the next batch of the epoch into the prefetch queue
Prefetch ==
    /\ pc \in {"batch", "eval", "log", "ckpt"}
    /\ prefetched < MaxPrefetch
    /\ i + (IF pc = "batch" THEN 0 ELSE 1) + prefetched < iters
    /\ prefetched' = prefetched + 1
    /\ UNCHANGED netVars
    /\ UNCHANGED <<ds, init_feat, fg_cyc, absent, gs_dims, iters, pc, error,
                   loaded, epoch, i, n_update, params, opt_steps, mode, sched,
                   step_arg, lr, log_dict, wandb_log, model_pt, n_train,
                   n_eval, n_ckpt, finished>>

\* the test of line 139 made on the counter before its increment
AfterTrainStale(n) == IF (n - 1) % log_every = 0 THEN "eval" ELSE "log"

\* where line 139 sends the batch: EVAL_STEP on every log_every-th update
AfterTrain(n) == IF n % log_every = 0 THEN "eval" ELSE "log"

\* lines 118-138: forward, loss, backward, opt.step, scheduler.step, n_update
TrainStep ==
    /\ pc = "batch"
    /\ prefetched > 0
    /\ prefetched' = prefetched - 1
    /\ IF ForwardRaises(gs_dims["train"])
       THEN /\ pc' = "raised"
            /\ error' = "DimMismatch"
            /\ UNCHANGED <<params, opt_steps, sched, step_arg, lr, log_dict,
                           n_update, n_train>>
       ELSE /\ params' = params + 1
            /\ opt_steps' = opt_steps + 1
            /\ step_arg' = SchedArg(epoch, i, iters)
            /\ sched' = SchedStep(step_arg')
            /\ lr' = SchedLr(sched')
            /\ log_dict' = {"lr", "loss", "train_rmse"}
            /\ n_update' = n_update + 1
            /\ n_train' = n_train + 1
            /\ pc' = AfterTrain(n_update')
            /\ UNCHANGED error
    /\ UNCHANGED netVars
    /\ UNCHANGED <<ds, init_feat, fg_cyc, absent, gs_dims, iters, loaded,
                   epoch, i, mode, wandb_log, model_pt, n_eval, n_ckpt,
                   finished>>

\* lines 140-155 without the model.train() of line 156
ModeLeftInEval == "eval"

\* the mode the model is left in when lines 140-156 complete (model.train())
ModeAfterEval == "train"

\* lines 139-156: no-gradient forward passes over validation and test graphs
EvalStep ==
    /\ pc = "eval"
    /\ IF ForwardRaises(gs_dims["val"]) \/ ForwardRaises(gs_dims["test"])
       THEN /\ pc' = "raised"
            /\ error' = "DimMismatch"
            /\ mode' = "eval"
            /\ log_dict' = IF ForwardRaises(gs_dims["val"])
                           THEN log_dict
                           ELSE log_dict \cup {"val_rmse"}
            /\ UNCHANGED n_eval
       ELSE /\ pc' = "log"
            /\ mode' = ModeAfterEval
            /\ log_dict' = log_dict \cup {"val_rmse", "test_rmse"}
            /\ n_eval' = n_eval + 1
            /\ UNCHANGED error
    /\ UNCHANGED netVars
    /\ UNCHANGED <<ds, init_feat, fg_cyc, absent, gs_dims, iters, loaded,
                   epoch, i, n_update, params, opt_steps, sched, step_arg, lr,
                   wandb_log, model_pt, n_train, n_ckpt, finished,
                   prefetched>>

\* wandb.log indented into the block of line 139: only evaluated batches log
LogInsideEvalBlock ==
    /\ pc = "log"
    /\ wandb_log' = IF "val_rmse" \in log_dict
                    THEN [count |-> wandb_log.count + 1, keys |-> log_dict, lr |-> lr]
                    ELSE wandb_log
    /\ pc' = "ckpt"
    /\ UNCHANGED netVars
    /\ UNCHANGED <<ds, init_feat, fg_cyc, absent, gs_dims, iters, error,
                   loaded, epoch, i, n_update, params, opt_steps, mode, sched,
                   step_arg, lr, log_dict, model_pt, n_train, n_eval, n_ckpt,
                   finished, prefetched>>

\* line 158: wandb.log(log_dict)
Log ==
    /\ pc = "log"
    /\ wandb_log' = [count |-> wandb_log.count + 1, keys |-> log_dict, lr |-> lr]
    /\ pc' = "ckpt"
    /\ UNCHANGED netVars
    /\ UNCHANGED <<ds, init_feat, fg_cyc, absent, gs_dims, iters, error,
                   loaded, epoch, i, n_update, params, opt_steps, mode, sched,
                   step_arg, lr, log_dict, model_pt, n_train, n_eval, n_ckpt,
                   finished, prefetched>>

\* line 159: torch.save(model.state_dict(), model.pt); then the loop heads of
\* lines 116-117 advance to the next batch, the next epoch or the exit
Checkpoint ==
    /\ pc = "ckpt"
    /\ model_pt' = params
    /\ n_ckpt' = n_ckpt + 1
    /\ IF i + 1 < iters
       THEN /\ i' = i + 1
            /\ UNCHANGED epoch
            /\ pc' = "batch"
       ELSE /\ i' = 0
            /\ epoch' = epoch + 1
            /\ pc' = IF epoch + 1 < epochs THEN "batch" ELSE "finish"
    /\ UNCHANGED netVars
    /\ UNCHANGED <<ds, init_feat, fg_cyc, absent, gs_dims, iters, error,
                   loaded, n_update, params, opt_steps, mode, sched, step_arg,
                   lr, log_dict, wandb_log, n_train, n_eval, finished,
                   prefetched>>

\* line 161: run.finish()
Finish ==
    /\ pc = "finish"
    /\ finished' = TRUE
    /\ pc' = "done"
    /\ UNCHANGED netVars
    /\ UNCHANGED <<ds, init_feat, fg_cyc, absent, gs_dims, iters, error,
                   loaded, epoch, i, n_update, params, opt_steps, mode, sched,
                   step_arg, lr, log_dict, wandb_log, model_pt, n_train,
                   n_eval, n_ckpt, prefetched>>

MainStep ==
    \/ LoadGraphs
    \/ Setup
    \/ TrainStep
    \/ EvalStep
    \/ Log
    \/ Checkpoint
    \/ Finish

Next ==
    \/ LoadGraphs
    \/ Setup
    \/ Prefetch
    \/ TrainStep
    \/ EvalStep
    \/ Log
    \/ Checkpoint
    \/ Finish

Spec == Init /\ [][Next]_vars

\* the main thread keeps running and the workers keep producing batches
FairSpec == Spec /\ WF_vars(MainStep) /\ WF_vars(Prefetch)

SpecCfg == InitCfg /\ [][Next]_vars

SpecNet == InitNet /\ [][NextNet]_vars

----------------------------------------------------------------------------
(* Properties *)

\* C1: every batch causes exactly one TRAIN_STEP, one LOG and one
\* CHECKPOINT, in the order TRAIN_STEP -> (EVAL_STEP) -> LOG -> CHECKPOINT,
\* all before the next batch: between batches the three counts equal
\* n_update, after the train step the log and the checkpoint of the batch are
\* still to come, after the log only the checkpoint is.
C1_OneStepLogCheckpointPerBatch ==
    /\ pc \in {"batch", "finish", "done"} =>
          /\ n_train = n_update
          /\ wandb_log.count = n_update
          /\ n_ckpt = n_update
    /\ pc = "batch" => n_update = epoch * iters + i
    /\ pc \in {"eval", "log"} =>
          /\ n_train = n_update
          /\ wandb_log.count = n_update - 1
          /\ n_ckpt = n_update - 1
    /\ pc = "ckpt" =>
          /\ n_train = n_update
          /\ wandb_log.count = n_update
          /\ n_ckpt = n_update - 1

C1_Witness ==
    pc = "batch" /\ epoch = 1 /\ i = iters - 1 /\ iters > 1 /\ n_ckpt = n_update

\* C2: an EVAL_STEP runs on a batch iff the global counter n_update, already
\* incremented for the batch, is a positive multiple of log_every; it runs
\* after the batch's optimizer and scheduler step and before its LOG; the
\* batch's log carries val_rmse and test_rmse exactly on those batches.
C2_EvalEveryLogEvery ==
    /\ pc = "eval" =>
          /\ n_update > 0 /\ n_update % log_every = 0
          /\ n_eval = (n_update \div log_every) - 1
          /\ opt_steps = n_update
          /\ step_arg.num = n_update - 1
          /\ wandb_log.count = n_update - 1
    /\ pc \in {"log", "ckpt", "batch", "finish", "done"} =>
          n_eval = n_update \div log_every
    /\ pc = "ckpt" =>
          /\ ("val_rmse" \in wandb_log.keys) = (n_update % log_every = 0)
          /\ ("test_rmse" \in wandb_log.keys) = (n_update % log_every = 0)

C2_Witness ==
    pc = "ckpt" /\ n_eval = 2 /\ n_update = 2 * log_every
       /\ "val_rmse" \in wandb_log.keys

\* C3: a run that does not raise reaches the terminal state, and there
\* exactly epochs * len(train_dl) training steps have been made, model.pt
\* holds the parameters of the last optimizer step and run.finish() was called.
C3_TerminalState ==
    /\ <>(pc = "done")
    /\ [](pc = "done" =>
             /\ n_train = epochs * iters
             /\ opt_steps = epochs * iters
             /\ params = opt_steps
             /\ model_pt = params
             /\ n_ckpt > 0
             /\ finished)

\* the restart cycle (of T_0 epochs) the k-th training step belongs to, k >= 1
CycleOfStep(k) == (k - 1) \div (T_0 * iters)

\* C4: along the logged learning rates, the rate decreases from each log to
\* the next within a restart cycle of T_0 epochs, and the first log of the
\* next cycle is higher than the last log of the previous cycle.
C4_LrDecreasesThenRestarts ==
    [][ (wandb_log'.count = wandb_log.count + 1 /\ wandb_log.count >= 1) =>
           IF CycleOfStep(wandb_log'.count) = CycleOfStep(wandb_log.count)
           THEN wandb_log'.lr < wandb_log.lr
           ELSE wandb_log'.lr > wandb_log.lr ]_vars

C4_Witness ==
    /\ wandb_log.count = 2 * T_0 * iters + 1
    /\ wandb_log.lr = BaseLr
    /\ iters = MaxIters

\* C5: on batch i of epoch e the scheduler is stepped to e + i/N; the
\* position times N is the number of optimizer steps made before the batch,
\* lies in [e, e+1), and is 1/N above the previous position.
C5_SchedulerPosition ==
    [][ step_arg' # step_arg =>
           /\ step_arg'.den = iters
           /\ step_arg'.num = epoch * iters + i
           /\ step_arg'.num = opt_steps
           /\ epoch * step_arg'.den <= step_arg'.num
           /\ step_arg'.num < (epoch + 1) * step_arg'.den
           /\ step_arg = NoArg \/
                 (step_arg'.den = step_arg.den /\ step_arg'.num = step_arg.num + 1)
           /\ sched'.last_epoch = epoch ]_vars

C5_Witness ==
    step_arg = [num |-> 2 * iters + 1, den |-> iters] /\ iters = MaxIters /\ epoch = 2

\* C6: a configuration error (a missing data file, graph features that do
\* not fit the model's input dimensions) is raised before any training step:
\* no optimizer step, no log and no checkpoint has happened when it is raised.
C6_ConfigErrorsFailFast ==
    pc = "raised" =>
       /\ params = 0 /\ opt_steps = 0 /\ n_train = 0
       /\ wandb_log.count = 0
       /\ n_ckpt = 0 /\ model_pt = 0 - 1

\* C7: EVAL_STEP, LOG, CHECKPOINT and the loader's workers leave the
\* parameters, the optimizer state, the scheduler, the learning rate and
\* n_update unchanged (only a TRAIN_STEP changes them), and the model is in
\* training mode whenever a TRAIN_STEP is about to start.
C7_OnlyTrainStepMutates ==
    [][ /\ (pc \in {"eval", "log", "ckpt"} \/ prefetched' > prefetched) =>
              /\ params' = params
              /\ opt_steps' = opt_steps
              /\ sched' = sched
              /\ lr' = lr
              /\ n_update' = n_update
        /\ params' # params => (pc = "batch" /\ n_train' = n_train + 1)
        /\ (pc = "eval" /\ pc' = "log") => mode' = "train"
        /\ pc' = "batch" => mode' = "train" ]_vars

C7_Witness ==
    pc = "batch" /\ n_eval > 0 /\ mode = "train" /\ prefetched > 0
       /\ params = n_update /\ model_pt = params

\* C8: the functional-group attention function built by Net.__init__ is a
\* scalar gate with identity activation, like the atom-atom attention
\* function: its declared output dimension is 1.
C8_FamIsScalarGate ==
    npc \in {"built", "ran", "compared"} =>
       /\ net.am.out = 1 /\ net.am.act = "Identity"
       /\ net.fam.out = 1 /\ net.fam.act = "Identity"

\* the four file variants: directory and prefix put before the dataset name
VariantPrefixes ==
    {"data/", "data/noinit_", "data_nocyc/nocyc_", "data_nocyc/nocyc_noinit_"}

TripleOfVariant(v, name) ==
    [k \in 1..3 |-> v \o name \o "_" \o Splits[k] \o ".bin"]

\* C9: when load_graphs has returned, the files loaded for the flag
\* combination are the train, val and test file of one single variant (same
\* directory and prefix), and no other flag combination loads any of these
\* files for the same dataset.
C9_FlagsSelectOneVariant ==
    pc = "setup" =>
       /\ \E v \in VariantPrefixes : loaded = TripleOfVariant(v, ds)
       /\ \A c \in BOOLEAN, f \in BOOLEAN :
             (c # fg_cyc \/ f # init_feat) =>
                \A k \in 1..3, j \in 1..3 : FileTriple(ds, c, f)[k] # loaded[j]

C9_Witness ==
    pc = "setup" /\ ~fg_cyc /\ ~init_feat /\ ds = "esol"
       /\ loaded[2] = "data_nocyc/nocyc_noinit_esol_val.bin"

\* C10: reordering the nodes of one node type, with the incident edges
\* remapped, leaves the readout vector and the prediction y unchanged.
C10_PermutationInvariance ==
    npc = "compared" =>
       /\ out_pg.readout = out_g.readout
       /\ out_pg.y = out_g.y

C10_Witness ==
    /\ npc = "compared"
    /\ perm.ntype = "atom" /\ g.nA = MaxAtoms /\ g.nF = 2
    /\ perm.p # [a \in 1..g.nA |-> a]
    /\ g.af[1] # g.af[2]
    /\ out_g.readout # Zeros(Len(out_g.readout))
    /\ out_pg.y = out_g.y

====
